---- MODULE Spec2Model ----
(***************************************************************************)
(* The audio timeline engine of dancey (src/src/lib.rs, src/src/app.rs):   *)
(* the two-level timeline index (ItemGroup), the cached extent last_node,  *)
(* the clips' shared sample buffers and the three mixers; the sample       *)
(* parsing thread of a clip and its requests; the transport controls and   *)
(* the tasks they spawn; recount_sample_length.                            *)
(*                                                                         *)
(* Sample values are integers (addition is exact, as the spec's            *)
(* bit-identical requirement assumes); sample rates, durations and buffer  *)
(* lengths are drawn from small sets so that whole buffers are states.     *)
(* A clip's duration is a rational DurNum(c) / DurDen seconds.             *)
(***************************************************************************)
EXTENDS Integers, Sequences, FiniteSets, TLC

VARIABLES
    nodes,            \* MusicGrid.nodes: track -> IndexMap, a sequence of <<position, clip>>
    last_node,        \* MusicGrid.last_node: None or <<position, clip>>
    beat_per_minute,  \* MusicGrid.beat_per_minute
    sample_rate,      \* MusicGrid.sample_rate
    samples_buffer,   \* clip -> contents of its SampleBuffer (shared by every clone of the clip)
    produced,         \* clip -> number of resampler output chunks its worker has appended
    dnd,              \* the drag-and-drop channel dnd_sender/dnd_receiver: sequence of <<position, clip>>
    crashed,          \* a panic has unwound the calling thread
    res,              \* the last operation performed, its inputs and its result
    worker,           \* the sample parsing thread of one SoundNode and its request channel
    transport,        \* Application's playback state and the transport tasks it spawned
    recount,          \* the last call of recount_sample_length: its input and its result
    group,            \* an ItemGroup shared by several calling threads, and their calls
    sync              \* the locks of the index and of the clip buffers, and the threads at them

vars == <<nodes, last_node, beat_per_minute, sample_rate, samples_buffer, produced,
          dnd, crashed, res, worker, transport, recount, group, sync>>

\* The timeline and the mixers leave these alone.
ext == <<worker, transport, recount, group, sync>>

-----------------------------------------------------------------------------
(* Bounds of the model *)

\* Clips the index holds at most; pending drops; output blocks per worker.
MaxNodes == 2
MaxDnd == 1
MaxChunks == 1
\* Parsing requests sent to one worker; packets in one source file.
MaxRequests == 4
NumPackets == 3
\* Windows one transport task hands to its sink; commands sent to the tasks.
MaxWindows == 2
MaxCommands == 2
\* Entries in the list recount_sample_length is given.
MaxList == 2
\* Length of the vec safe_mut_slice is given.
MaxLen == 4
\* Requests waiting in a worker's channel, packets in its backlog, and
\* windowed mixes one task runs, where the locks are followed.
MaxQueued == 1
MaxBacklog == 1
MaxMixCalls == 1

\* Tracks, beat positions and clips the operations are called with.
Tracks == {1, 2}
Positions == {0, 1}
ClipIds == {1, 2}

\* Tempo values the slider is set to (app.rs:208 allows 1..=495).
BpmValues == {60, 100}
\* Project sample rates, scaled down from the SampleRate enumeration; Medium
\* is its default.
Medium == 16
SampleRates == {8, Medium}
\* Global sample indices the windowed mix is called with: where a window
\* starts and where it ends.
WindowStarts == {0, 32}
WindowEnds == {32, 48, 96}

(* Program constants *)

LaneWidth == 32
DefaultBpm == 100
\* Samples appended per resampler output block (scaled: two lanes per block).
OutChunk == 64
\* Durations are DurNum(c) / DurDen seconds.
DurDen == 2
\* Frames in one decoded packet (the capacity the decoder reports) and frames
\* the resampler takes per output block, both scaled.
PacketFrames == 3
InFrames == 2
\* The sample count of a default request, native rate * 3 s * 2 scaled to two
\* packets, and the counts of custom requests: less than one packet, more
\* than the whole file.
DefaultCount == 6
CustomCounts == {1, 100}
\* Seconds of audio per window, and the capacity of a task's command channel.
sample_length_secs == 3
ChannelCapacity == 200
\* The tasks tokio::spawn is given, one per Play, in the order of the Plays.
TaskIds == {1, 2}
\* Sample indices a Seek command carries.
SeekPositions == {16, 32}
\* Widths of the integers of recount_sample_length, scaled: u64 is WordBits
\* wide and u128 twice that.
WordBits == 4
Word == 2 ^ WordBits
Wide == 2 ^ (2 * WordBits)
\* Frame counts and channel counts of the stream parameters; an Option is
\* None or <<value>>.
FrameCounts == {3, 5, Word \div 2, Word - 1}
ChannelCounts == {1, 2}
\* The clip whose worker is followed request by request.
WorkerClip == 1

\* The threads that call the shared ItemGroup, the track they call it on and
\* the positions they pass.
CallerIds == {1, 2}
GroupTrack == 1
GroupPositions == {0, 1, 2}

\* The task that runs the windowed mix, the shards of the index's DashMap
\* and the inserts the UI thread makes while the task and the workers run.
MixerIds == {1}
Shards == {1, 2}
LockInserts == {<<1, 0, 1>>, <<2, 0, 2>>}

None == <<>>

\* symphonia's CodecParameters, of which n_frames and channels are read.
CodecParameters ==
    [n_frames : {None} \cup {<<n>> : n \in FrameCounts},
     channels : {None} \cup {<<c>> : c \in ChannelCounts}]

-----------------------------------------------------------------------------
(* Clips. A SoundNode's duration and native sample rate are fixed at        *)
(* construction; clip 1 lasts 2 s at rate 16, the others 1.5 s at rate 43.  *)

DurNum(c) == IF c = 1 THEN 4 ELSE 3
NativeRate(c) == IF c = 1 THEN 16 ELSE 43

\* The k-th sample (k >= 1) the worker of clip c ever appends; never 0.
SampleVal(c, k) == c * 1000 + k

Min(a, b) == IF a < b THEN a ELSE b
Max(a, b) == IF a > b THEN a ELSE b
CeilDiv(a, b) == (a + b - 1) \div b

-----------------------------------------------------------------------------
(* IndexMap<usize, SoundNode>: a sequence of <<key, value>> in insertion order *)

IndexOfKey(m, k) ==
    IF \E i \in 1..Len(m) : m[i][1] = k
    THEN CHOOSE i \in 1..Len(m) : m[i][1] = k
    ELSE 0

\* IndexMap::insert: replace the value in place, or append.
IndexMapInsertAppendOnly(m, k, v) == Append(m, <<k, v>>)

IndexMapInsert(m, k, v) ==
    LET i == IndexOfKey(m, k)
    IN  IF i > 0 THEN [m EXCEPT ![i] = <<k, v>>] ELSE Append(m, <<k, v>>)

\* IndexMap::swap_remove: the last entry takes the removed entry's place.
IndexMapSwapRemove(m, k) ==
    LET i == IndexOfKey(m, k)
        n == Len(m)
    IN  IF i = 0 THEN m
        ELSE [j \in 1..(n - 1) |-> IF j = i THEN m[n] ELSE m[j]]

(* ItemGroup<usize, usize, SoundNode>: DashMap from track to IndexMap *)

insert(g, key, inner_key, value) ==
    IF key \in DOMAIN g
    THEN [g EXCEPT ![key] = IndexMapInsert(g[key], inner_key, value)]
    ELSE g @@ (key :> <<<<inner_key, value>>>>)

remove(g, key, inner_key) ==
    IF key \in DOMAIN g
    THEN [g EXCEPT ![key] = IndexMapSwapRemove(g[key], inner_key)]
    ELSE g

EmptyGroup == [t \in {} |-> <<>>]

\* Every <<track, position, clip>> the index holds.
Entries(g) ==
    UNION {{<<t, g[t][i][1], g[t][i][2]>> : i \in 1..Len(g[t])} : t \in DOMAIN g}

LastOf(m) == IF Len(m) = 0 THEN None ELSE m[Len(m)]

\* The key max_by_key ranks a track by: the largest end time of its clips in
\* whole seconds, (position * (60 / bpm) + ceil(duration)) as u64; 0 when empty.
TrackKey(m, bpm) ==
    LET ends == {(m[i][1] * 60) \div bpm + CeilDiv(DurNum(m[i][2]), DurDen) : i \in 1..Len(m)}
    IN  IF ends = {} THEN 0 ELSE CHOOSE e \in ends : \A f \in ends : f <= e

\* MusicGrid::calculate_last_node: the possible results. The result is the
\* last entry of a track of maximal key; DashMap iterates the tracks in an
\* order fixed by its random hasher, so any track of maximal key can be the
\* one max_by_key returns.
calculate_last_node(g, bpm) ==
    IF DOMAIN g = {} THEN {None}
    ELSE {LastOf(g[t]) : t \in {u \in DOMAIN g :
                                  \A w \in DOMAIN g : TrackKey(g[w], bpm) <= TrackKey(g[u], bpm)}}

-----------------------------------------------------------------------------
(* The record of the last operation: its name, its arguments, the clip an   *)
(* insert replaced, whether the call panicked, the buffer it returned and   *)
(* the clips' buffers it started from.                                      *)

NoCall ==
    [fn |-> "none", args |-> <<>>, replaced |-> 0, panic |-> FALSE, buf |-> <<>>,
     pre_samples |-> None, requests |-> <<>>]

\* replaced: the clip an insert found at its key, 0 when the key was vacant.
Mutation(fn, args, replaced) ==
    [NoCall EXCEPT !.fn = fn, !.args = args, !.replaced = replaced]

HasKey(g, t, p) == t \in DOMAIN g /\ IndexOfKey(g[t], p) > 0
ClipAt(g, t, p) == IF HasKey(g, t, p) THEN g[t][IndexOfKey(g[t], p)][2] ELSE 0
NodeCount(g) == Cardinality(Entries(g))
ClipsIn(g) == {e[3] : e \in Entries(g)}
Referenced ==
    ClipsIn(nodes) \cup {dnd[i][2] : i \in 1..Len(dnd)}
        \cup (IF last_node = None THEN {} ELSE {last_node[2]})

\* Application::default: no sink, no timer, no sender, cursor 0, no task.
\* sent counts the commands sent, seeked tells whether a task has handled a
\* Seek.
TransportNew ==
    [master_audio_sink |-> "none", playback_timer |-> "none", playback_thread_sender |-> 0,
     playback_idx |-> 0, tasks |-> <<>>, sent |-> 0, seeked |-> FALSE]

\* The task tokio::spawn is given by Play: about to run its first statement,
\* with the project sample rate of that moment and an empty channel.
\* windows lists what it handed to its sink: <<starting_idx, dest_idx, s>>
\* with s = <<seek_pos>> for the Seek it handled since its previous window.
TaskNew(sr) ==
    [pc |-> "add", should_playback |-> TRUE, armed |-> FALSE, queue |-> <<>>,
     starting_idx |-> 0, sample_rate |-> sr, windows |-> <<>>, after_seek |-> None,
     sleep_elapsed |-> 0, since_window |-> 0]

\* recount_sample_length has not been called.
NoRecount == [samples |-> <<>>, result |-> [kind |-> "none", value |-> 0]]

\* ItemGroup::new, and no thread inside a call. inner is the DashMap; order
\* lists, per track, the positions now present in the order of the calls
\* that added them.
NoCaller == [pc |-> "idle", key |-> 0, inner_key |-> 0, value |-> 0, absent |-> FALSE]

GroupNew ==
    [inner |-> [t \in {} |-> <<>>], order |-> [t \in {} |-> <<>>],
     callers |-> [c \in CallerIds |-> NoCaller]]

\* The threads: the sample parsing thread of a clip, a task in a windowed
\* mix, the UI thread.
WorkerOf(c) == <<"worker", c>>
MixerOf(m) == <<"mixer", m>>
UiThread == <<"ui", 0>>
Threads == {WorkerOf(c) : c \in ClipIds} \cup {MixerOf(m) : m \in MixerIds} \cup {UiThread}

\* Every clip was made from a file: its worker waits in recv with the
\* request of regsiter_dnd_drop queued and its backlog whole, and its buffer
\* is empty and unlocked. No task is in a mix, the UI thread is between
\* frames, and no shard of the index is locked.
SyncNew(shard_of) ==
    [lock |-> [c \in ClipIds |-> None],
     readers |-> [s \in Shards |-> {}],
     writer |-> [s \in Shards |-> FALSE],
     shard_of |-> shard_of,
     workers |-> [c \in ClipIds |->
                    [pc |-> "recv", queue |-> 1, backlog |-> MaxBacklog, len |-> 0]],
     mixers |-> [m \in MixerIds |->
                   [pc |-> "idle", shard |-> 0, tracks |-> {}, track |-> 0, idx |-> 0,
                    calls |-> 0, result |-> "none"]],
     ui |-> [pc |-> "idle", row |-> 0]]

\* SoundNode::new: the worker owns a copy of every packet of the file, in
\* stream order, and a copy of the first one; the request channel is open.
\* decoded lists the packets handed to the decoder so far, scratch counts
\* the frames waiting in left_buffer / right_buffer, result is what the last
\* request returned to its caller.
WorkerNew ==
    [channel |-> "open", queue |-> <<>>, packet_list |-> [i \in 1..NumPackets |-> i],
     first_packet |-> 1, scratch |-> 0, decoded |-> <<>>, sent |-> 0, result |-> "none"]

\* SoundNode::default: no packets, no worker, no channel.
WorkerDefault ==
    [WorkerNew EXCEPT !.channel = "none", !.packet_list = <<>>, !.first_packet = 0]

-----------------------------------------------------------------------------
(* State after construction: MusicGrid::new, Application::default *)

InitGrid ==
    /\ nodes = EmptyGroup
    /\ last_node = None
    /\ beat_per_minute = DefaultBpm
    /\ sample_rate = Medium
    /\ samples_buffer = [c \in ClipIds |-> <<>>]
    /\ produced = [c \in ClipIds |-> 0]
    /\ dnd = <<>>
    /\ crashed = FALSE
    /\ res = NoCall

Init ==
    /\ InitGrid
    /\ worker = WorkerNew
    /\ transport = TransportNew
    /\ recount = NoRecount
    /\ group = GroupNew
    /\ sync = SyncNew([t \in Tracks |-> t])

-----------------------------------------------------------------------------
(* Timeline mutations *)

\* MusicGrid::insert_node
insert_node(channel, position, node) ==
    /\ ~crashed
    /\ HasKey(nodes, channel, position) \/ NodeCount(nodes) < MaxNodes
    /\ nodes' = insert(nodes, channel, position, node)
    /\ last_node' \in calculate_last_node(nodes', beat_per_minute)
    /\ res' = Mutation("insert_node", <<channel, position, node>>,
                       ClipAt(nodes, channel, position))
    /\ UNCHANGED <<beat_per_minute, sample_rate, samples_buffer, produced, dnd, crashed>>
    /\ UNCHANGED ext

\* MusicGrid::regsiter_dnd_drop with the pointer over a valid track: a new
\* SoundNode is constructed (empty buffer, new worker) and sent on the channel.
regsiter_dnd_drop(node, position) ==
    /\ ~crashed
    /\ Len(dnd) < MaxDnd
    /\ node \notin Referenced
    /\ samples_buffer' = [samples_buffer EXCEPT ![node] = <<>>]
    /\ produced' = [produced EXCEPT ![node] = 0]
    /\ dnd' = Append(dnd, <<position, node>>)
    /\ res' = Mutation("regsiter_dnd_drop", <<>>, 0)
    /\ UNCHANGED <<nodes, last_node, beat_per_minute, sample_rate, crashed>>
    /\ UNCHANGED ext

\* The rows whose rect contains the pointer: none, one, or two adjacent rows
\* (Rect::contains includes both edges).
PointerRows ==
    {{}} \cup {{t} : t \in Tracks} \cup {{t, t + 1} : t \in {u \in Tracks : u + 1 \in Tracks}}

RECURSIVE InsertRows(_, _, _, _)
InsertRows(g, rows, position, node) ==
    IF rows = {} THEN g
    ELSE LET t == CHOOSE r \in rows : \A q \in rows : r <= q
         IN  InsertRows(insert(g, t, position, node), rows \ {t}, position, node)

\* MusicGrid::show, lines 730-761: one try_recv, then an insert into every
\* row under the pointer.
DropNodes(ptr) ==
    IF dnd = <<>> THEN nodes ELSE InsertRows(nodes, ptr, dnd[1][1], dnd[1][2])
DropDnd == IF dnd = <<>> THEN dnd ELSE Tail(dnd)
Dropped(ptr) == dnd # <<>> /\ ptr # {}

\* A frame of MusicGrid::show in which a dropped node arrives and no label is clicked.
ShowDrop(ptr) ==
    /\ ~crashed
    /\ dnd # <<>>
    /\ NodeCount(DropNodes(ptr)) <= MaxNodes
    /\ nodes' = DropNodes(ptr)
    /\ dnd' = DropDnd
    /\ IF Dropped(ptr)
       THEN last_node' \in calculate_last_node(nodes', beat_per_minute)
       ELSE last_node' = last_node
    /\ res' = Mutation("drop", <<>>, 0)
    /\ UNCHANGED <<beat_per_minute, sample_rate, samples_buffer, produced, crashed>>
    /\ UNCHANGED ext

\* A frame of MusicGrid::show in which the drag of the label at (row, position)
\* stops over a valid track: the node is sent on the channel for beat and
\* swap_removed from its row; last_node is not recomputed (lines 850-881).
ShowDragStop(ptr, row, position, beat) ==
    /\ ~crashed
    /\ dnd = <<>> => ptr = {}
    /\ NodeCount(DropNodes(ptr)) <= MaxNodes
    /\ LET g1 == DropNodes(ptr)
       IN  /\ HasKey(g1, row, position)
           /\ Len(DropDnd) < MaxDnd
           /\ dnd' = Append(DropDnd, <<beat, g1[row][IndexOfKey(g1[row], position)][2]>>)
           /\ nodes' = [g1 EXCEPT ![row] = IndexMapSwapRemove(g1[row], position)]
           /\ IF Dropped(ptr)
              THEN last_node' \in calculate_last_node(g1, beat_per_minute)
              ELSE last_node' = last_node
    /\ res' = Mutation("drag_stop", <<>>, 0)
    /\ UNCHANGED <<beat_per_minute, sample_rate, samples_buffer, produced, crashed>>
    /\ UNCHANGED ext

\* A frame of MusicGrid::show in which Delete is clicked in the context menu
\* of the label at (row, position): swap_remove, then last_node is recomputed
\* (lines 883-911).
ShowDelete(ptr, row, position) ==
    /\ ~crashed
    /\ dnd = <<>> => ptr = {}
    /\ NodeCount(DropNodes(ptr)) <= MaxNodes
    /\ LET g1 == DropNodes(ptr)
       IN  /\ HasKey(g1, row, position)
           /\ nodes' = [g1 EXCEPT ![row] = IndexMapSwapRemove(g1[row], position)]
    /\ dnd' = DropDnd
    /\ last_node' \in calculate_last_node(nodes', beat_per_minute)
    /\ res' = Mutation("delete", <<>>, 0)
    /\ UNCHANGED <<beat_per_minute, sample_rate, samples_buffer, produced, crashed>>
    /\ UNCHANGED ext

\* Application::update, "Clear MusicGrid": only the index is cleared.
ClearMusicGrid ==
    /\ ~crashed
    /\ DOMAIN nodes # {}
    /\ nodes' = EmptyGroup
    /\ res' = Mutation("clear", <<>>, 0)
    /\ UNCHANGED <<last_node, beat_per_minute, sample_rate, samples_buffer, produced, dnd, crashed>>
    /\ UNCHANGED ext

\* Application::update, the tempo slider.
SetBpm(b) ==
    /\ ~crashed
    /\ b # beat_per_minute
    /\ beat_per_minute' = b
    /\ res' = NoCall
    /\ UNCHANGED <<nodes, last_node, sample_rate, samples_buffer, produced, dnd, crashed>>
    /\ UNCHANGED ext

\* Application::update, the sample-rate combo box.
SetSampleRate(r) ==
    /\ ~crashed
    /\ r # sample_rate
    /\ sample_rate' = r
    /\ res' = NoCall
    /\ UNCHANGED <<nodes, last_node, beat_per_minute, samples_buffer, produced, dnd, crashed>>
    /\ UNCHANGED ext

\* The worker of clip c appends one resampler output block to the shared buffer.
WorkerAppend(c) ==
    /\ ~crashed
    /\ produced[c] < MaxChunks
    /\ samples_buffer' = [samples_buffer EXCEPT ![c] =
           samples_buffer[c] \o [k \in 1..OutChunk |-> SampleVal(c, produced[c] * OutChunk + k)]]
    /\ produced' = [produced EXCEPT ![c] = produced[c] + 1]
    /\ res' = NoCall
    /\ UNCHANGED <<nodes, last_node, beat_per_minute, sample_rate, dnd, crashed>>
    /\ UNCHANGED ext

-----------------------------------------------------------------------------
(* Slices and lanes *)

Zeros(n) == [i \in 1..n |-> 0]

\* s[a..b] of a 0-based half-open range, as a sequence.
Slice(s, a, b) == SubSeq(s, a + 1, b)

\* buffer with buffer[off .. off + Len(part)] replaced by part.
Splice(buffer, off, part) ==
    [i \in 1..Len(buffer) |->
        IF i > off /\ i <= off + Len(part) THEN part[i - off] ELSE buffer[i]]

\* f32x32::load_or_default: the first LaneWidth elements, padded with 0.0.
load_or_default(s) == [k \in 1..LaneWidth |-> IF k <= Len(s) THEN s[k] ELSE 0]

Panic == [panic |-> TRUE, lo |-> 0, hi |-> 0]

\* safe_mut_slice(vec, start..end) for a vec of length len: the bounds of the
\* slice it returns, or a panic. vec.len() - 1 underflows for an empty vec
\* (panic with overflow checks, usize::MAX without); clamp asserts
\* start <= vec.len() - 1; the final indexing checks end <= vec.len().
safe_mut_slice(len, start, end, overflow_checks) ==
    IF len = 0
    THEN IF overflow_checks THEN Panic
         ELSE LET e == Max(end, start)
              IN  IF e > len THEN Panic ELSE [panic |-> FALSE, lo |-> start, hi |-> e]
    ELSE IF start > len - 1 THEN Panic
         ELSE [panic |-> FALSE, lo |-> start, hi |-> Min(Max(end, start), len - 1)]

\* dst[sl.lo .. sl.hi].copy_from_slice(src): panics unless the lengths agree.
copy_from_slice(dst, sl, src) ==
    IF sl.panic \/ sl.hi - sl.lo # Len(src)
    THEN [panic |-> TRUE, buf |-> dst]
    ELSE [panic |-> FALSE, buf |-> Splice(dst, sl.lo, src)]

\* The number of chunks chunks_exact(LaneWidth) yields, and its remainder.
ChunkCount(s) == Len(s) \div LaneWidth
Remainder(s) == Slice(s, ChunkCount(s) * LaneWidth, Len(s))

\* The loop over chunks.zip(node_sample_chunks).enumerate(), from lane idx on:
\* add the two chunks and copy add_result[0 .. buffer_chunk.len() - 1] into
\* safe_mut_slice(buffer_part_write, idx * 32 .. (idx + 1) * 32 - 1).
RECURSIVE LaneLoop(_, _, _, _, _, _)
LaneLoop(write, read, src, idx, n, overflow_checks) ==
    IF idx >= n THEN [panic |-> FALSE, buf |-> write]
    ELSE LET buffer_chunk == Slice(read, idx * LaneWidth, (idx + 1) * LaneWidth)
             node_sample_chunk == Slice(src, idx * LaneWidth, (idx + 1) * LaneWidth)
             add_result == [k \in 1..LaneWidth |-> buffer_chunk[k] + node_sample_chunk[k]]
             sl == safe_mut_slice(Len(write), idx * LaneWidth, (idx + 1) * LaneWidth - 1,
                                  overflow_checks)
             r == copy_from_slice(write, sl, Slice(add_result, 0, Len(buffer_chunk) - 1))
         IN  IF r.panic THEN r
             ELSE LaneLoop(r.buf, read, src, idx + 1, n, overflow_checks)

Lanes(read, src, overflow_checks) ==
    LaneLoop(read, read, src, 0, Min(ChunkCount(read), ChunkCount(src)), overflow_checks)

\* The orders DashMap can iterate the tracks in.
Orders(S) ==
    {o \in [1..Cardinality(S) -> S] : \A i, j \in 1..Cardinality(S) : o[i] = o[j] => i = j}

\* for nodes in values() { for (position, node) in nodes.iter() }
RECURSIVE Visit(_, _, _)
Visit(g, order, i) ==
    IF i > Len(order) THEN <<>> ELSE g[order[i]] \o Visit(g, order, i + 1)

-----------------------------------------------------------------------------
(* MusicGrid::create_preview_samples_simd *)

NodeSampleCountSimd(c) == (DurNum(c) * NativeRate(c)) \div DurDen
samples_per_beat_simd(sr, bpm) == ((sr * 60) \div bpm) * 2

RECURSIVE PreviewLoopSimd(_, _, _, _, _)
PreviewLoopSimd(visit, i, spb, buffer, sb) ==
    IF i > Len(visit) THEN [panic |-> FALSE, buf |-> buffer, samples |-> sb]
    ELSE LET position == visit[i][1]
             node == visit[i][2]
             node_sample_count == NodeSampleCountSimd(node)
             sound_beat_position == position * spb
         IN  IF sound_beat_position + node_sample_count > Len(buffer)
             THEN [panic |-> TRUE, buf |-> <<>>, samples |-> sb]
             ELSE LET read == Slice(buffer, sound_beat_position,
                                    sound_beat_position + node_sample_count)
                      r == Lanes(read, sb[node], TRUE)
                      drained == [sb EXCEPT ![node] = <<>>]
                  IN  IF r.panic THEN [panic |-> TRUE, buf |-> <<>>, samples |-> drained]
                      ELSE PreviewLoopSimd(visit, i + 1, spb,
                                           Splice(buffer, sound_beat_position, r.buf), drained)

create_preview_samples_simd(g, ln, sr, bpm, sb, order) ==
    IF ln = None THEN [panic |-> TRUE, buf |-> <<>>, samples |-> sb]
    ELSE LET position == ln[1]
             spb == samples_per_beat_simd(sr, bpm)
             last_node_sample_count == CeilDiv(DurNum(ln[2]) * NativeRate(ln[2]), DurDen)
             total_samples == position * spb + last_node_sample_count
         IN  PreviewLoopSimd(Visit(g, order, 1), 1, spb, Zeros(total_samples), sb)

(* MusicGrid::create_preview_samples. samples_per_beat is the f32            *)
(* sample_rate / (60 / bpm), the rational sr * bpm / 60.                    *)

RECURSIVE PreviewLoop(_, _, _, _, _, _, _)
PreviewLoop(visit, i, sr, bpm, last_rate, buffer, sb) ==
    IF i > Len(visit) THEN [panic |-> FALSE, buf |-> buffer, samples |-> sb]
    ELSE LET position == visit[i][1]
             node == visit[i][2]
             node_sample_count == (DurNum(node) * last_rate) \div DurDen
             start == position * CeilDiv(sr * bpm, 60)
         IN  IF start + node_sample_count > Len(buffer)
             THEN [panic |-> TRUE, buf |-> <<>>, samples |-> sb]
             ELSE LET read == Slice(buffer, start, start + node_sample_count)
                      r == Lanes(read, sb[node], TRUE)
                      drained == [sb EXCEPT ![node] = <<>>]
                  IN  IF r.panic THEN [panic |-> TRUE, buf |-> <<>>, samples |-> drained]
                      ELSE PreviewLoop(visit, i + 1, sr, bpm, last_rate,
                                       Splice(buffer, start, r.buf), drained)

create_preview_samples(g, ln, sr, bpm, sb, order) ==
    IF ln = None THEN [panic |-> TRUE, buf |-> <<>>, samples |-> sb]
    ELSE LET position == ln[1]
             last_rate == NativeRate(ln[2])
             last_node_sample_count == (DurNum(ln[2]) * last_rate) \div DurDen
             total_samples == CeilDiv(position * sr * bpm, 60) + last_node_sample_count
         IN  PreviewLoop(Visit(g, order, 1), 1, sr, bpm, last_rate, Zeros(total_samples), sb)

-----------------------------------------------------------------------------
(* MusicGrid::buffer_preview_samples_simd *)

\* "Parse the remainder samples", lines 1160-1175.
RemainderStep(write, read, src, last_idx, overflow_checks) ==
    LET chunks_remainder == Remainder(read)
        node_sample_remainder == Remainder(src)
    IN  IF chunks_remainder = <<>> /\ node_sample_remainder = <<>>
        THEN [panic |-> FALSE, buf |-> write]
        ELSE LET a == load_or_default(chunks_remainder)
                 b == load_or_default(node_sample_remainder)
                 add_result == [k \in 1..LaneWidth |-> a[k] + b[k]]
                 remainder_slice_idx == Len(write) - last_idx * LaneWidth
                 sl == safe_mut_slice(Len(write), remainder_slice_idx, Len(write),
                                      overflow_checks)
             IN  copy_from_slice(write, sl,
                                 Slice(add_result, 0, Max(Len(chunks_remainder) - 1, 0)))

\* node_position: ((position as f32 * sample_rate as f32).ceil() * 2.) as usize.
NodePosition(position, sr) == position * sr * 2

RECURSIVE WindowLoop(_, _, _, _, _, _, _, _, _)
WindowLoop(visit, i, starting_sample_idx, destination_sample_idx, sr, buffer, sb, overflow_checks, requests) ==
    IF i > Len(visit) THEN [panic |-> FALSE, buf |-> buffer, requests |-> requests]
    ELSE LET position == visit[i][1]
             node_samples == sb[visit[i][2]]
             total_samples == destination_sample_idx - starting_sample_idx
             node_position == NodePosition(position, sr)
             node_sample_count == Len(node_samples)
         IN  IF \/ node_position + node_sample_count < starting_sample_idx
                \/ destination_sample_idx < node_position
             THEN WindowLoop(visit, i + 1, starting_sample_idx, destination_sample_idx, sr,
                             buffer, sb, overflow_checks, requests)
             ELSE LET requested == Append(requests, visit[i])
                      lo == IF node_position < starting_sample_idx THEN 0
                            ELSE node_position - starting_sample_idx
                      hi == IF node_position < starting_sample_idx
                            THEN Min(node_sample_count, total_samples)
                            ELSE (node_position + (destination_sample_idx - node_position))
                                     - starting_sample_idx
                      s0 == Max(starting_sample_idx - node_position, 0)
                      e0 == Min(destination_sample_idx, node_sample_count)
                  IN  IF lo > hi \/ hi > Len(buffer) \/ s0 > e0
                      THEN [panic |-> TRUE, buf |-> <<>>, requests |-> requested]
                      ELSE LET read == Slice(buffer, lo, hi)
                               src == Slice(node_samples, s0, e0)
                               n == Min(ChunkCount(read), ChunkCount(src))
                               last_idx == IF n = 0 THEN 0 ELSE n - 1
                               r == LaneLoop(read, read, src, 0, n, overflow_checks)
                               q == IF r.panic THEN r
                                    ELSE RemainderStep(r.buf, read, src, last_idx, overflow_checks)
                           IN  IF q.panic
                               THEN [panic |-> TRUE, buf |-> <<>>, requests |-> requested]
                               ELSE WindowLoop(visit, i + 1, starting_sample_idx,
                                               destination_sample_idx, sr,
                                               Splice(buffer, lo, q.buf), sb, overflow_checks,
                                               requested)

\* requests lists the clips the call sends request_default_count_sample_parsing
\* to; an Err of the send is printed and the loop goes on.
buffer_preview_samples_simd(starting_sample_idx, destination_sample_idx, sr, g, sb, order, overflow_checks) ==
    WindowLoop(Visit(g, order, 1), 1, starting_sample_idx, destination_sample_idx, sr,
               Zeros(destination_sample_idx - starting_sample_idx), sb, overflow_checks, <<>>)

-----------------------------------------------------------------------------
(* Mixer calls *)

Call(fn, args, r) ==
    [NoCall EXCEPT !.fn = fn, !.args = args, !.panic = r.panic, !.buf = r.buf,
                   !.pre_samples = samples_buffer]

CreatePreviewSimd(order) ==
    /\ ~crashed
    /\ LET r == create_preview_samples_simd(nodes, last_node, sample_rate, beat_per_minute,
                                            samples_buffer, order)
       IN  /\ res' = Call("create_preview_samples_simd", <<order>>, r)
           /\ samples_buffer' = r.samples
           /\ crashed' = r.panic
    /\ UNCHANGED <<nodes, last_node, beat_per_minute, sample_rate, produced, dnd>>
    /\ UNCHANGED ext

CreatePreview(order) ==
    /\ ~crashed
    /\ LET r == create_preview_samples(nodes, last_node, sample_rate, beat_per_minute,
                                       samples_buffer, order)
       IN  /\ res' = Call("create_preview_samples", <<order>>, r)
           /\ samples_buffer' = r.samples
           /\ crashed' = r.panic
    /\ UNCHANGED <<nodes, last_node, beat_per_minute, sample_rate, produced, dnd>>
    /\ UNCHANGED ext

\* A call of buffer_preview_samples_simd with the grid's sample rate and
\* index, as the transport task makes it (app.rs:264-267 and 281-284). The
\* read-ahead request it sends each overlapping clip reaches that clip's
\* worker, whose appends are WorkerAppend.
BufferPreview(a, b, order, overflow_checks) ==
    /\ ~crashed
    /\ a <= b
    /\ LET r == buffer_preview_samples_simd(a, b, sample_rate, nodes, samples_buffer, order,
                                            overflow_checks)
       IN  /\ res' = [Call("buffer_preview_samples_simd", <<a, b, overflow_checks>>, r)
                      EXCEPT !.requests = r.requests]
           /\ crashed' = r.panic
    /\ UNCHANGED <<nodes, last_node, beat_per_minute, sample_rate, samples_buffer, produced, dnd>>
    /\ UNCHANGED ext

-----------------------------------------------------------------------------
(* The sample parsing thread of a SoundNode and the requests sent to it *)

\* Sender::send on the request channel: the message is queued while the
\* receiver lives; with the receiver dropped, or with no channel, the caller
\* gets an Err and nothing is queued.
SendDropsOnClosed(w, count) ==
    [w EXCEPT !.queue = Append(w.queue, count), !.result = "ok", !.sent = w.sent + 1]

send(w, count) ==
    IF w.channel = "open"
    THEN [w EXCEPT !.queue = Append(w.queue, count), !.result = "ok", !.sent = w.sent + 1]
    ELSE [w EXCEPT !.result = "err", !.sent = w.sent + 1]

request_default_count_sample_parsing ==
    /\ worker.sent < MaxRequests
    /\ worker' = send(worker, DefaultCount)
    /\ UNCHANGED <<nodes, last_node, beat_per_minute, sample_rate, samples_buffer, produced,
                   dnd, crashed, res, transport, recount, group, sync>>

request_custom_count_sample_parsing(count) ==
    /\ worker.sent < MaxRequests
    /\ worker' = send(worker, count)
    /\ UNCHANGED <<nodes, last_node, beat_per_minute, sample_rate, samples_buffer, produced,
                   dnd, crashed, res, transport, recount, group, sync>>

\* A drain that takes at most one packet per request.
DrainCountOnePacket(w, desired) == Min(Min(desired \div PacketFrames, 1), Len(w.packet_list))

\* Packets one request drains from the backlog:
\* (desired / decoded_packet_sample_count).clamp(0, packet_list.len()).
DrainCount(w, desired) == Min(desired \div PacketFrames, Len(w.packet_list))

\* One iteration of the thread's loop on a received request. With an empty
\* backlog the thread returns and the receiver is dropped with whatever is
\* still queued. Otherwise the first packet is decoded, then the drained
\* packets; the frames join the scratch buffers, and every InFrames frames
\* of scratch become one output block appended to the shared buffer.
WorkerHandle ==
    /\ worker.channel = "open"
    /\ worker.queue # <<>>
    /\ LET desired == Head(worker.queue)
           n == DrainCount(worker, desired)
           frames == worker.scratch + PacketFrames * (1 + n)
           blocks == frames \div InFrames
           from == produced[WorkerClip] * OutChunk
       IN  IF worker.packet_list = <<>>
           THEN /\ worker' = [worker EXCEPT !.channel = "closed", !.queue = <<>>]
                /\ UNCHANGED <<samples_buffer, produced>>
           ELSE /\ worker' = [worker EXCEPT
                      !.queue = Tail(worker.queue),
                      !.decoded = worker.decoded \o <<worker.first_packet>>
                                      \o SubSeq(worker.packet_list, 1, n),
                      !.packet_list = SubSeq(worker.packet_list, n + 1, Len(worker.packet_list)),
                      !.scratch = frames % InFrames]
                /\ samples_buffer' = [samples_buffer EXCEPT ![WorkerClip] =
                       samples_buffer[WorkerClip]
                           \o [k \in 1..(blocks * OutChunk) |-> SampleVal(WorkerClip, from + k)]]
                /\ produced' = [produced EXCEPT ![WorkerClip] = produced[WorkerClip] + blocks]
    /\ UNCHANGED <<nodes, last_node, beat_per_minute, sample_rate, dnd, crashed, res,
                   transport, recount, group, sync>>

-----------------------------------------------------------------------------
(* The transport: the Play, Pause and Stop controls of Application::update  *)
(* and the tasks Play spawns. A task is at "add" before a fetch_add, at     *)
(* "load" between the fetch_add and the load, at "select" in select!, and   *)
(* "stopped" or "panicked" once it has ended.                               *)

Alive(task) == task.pc \notin {"stopped", "panicked"}
WindowLen(task) == task.sample_rate * sample_length_secs * 2

\* A send that queues on a channel whose receiver is gone.
TrySendToDead(tr, msg) ==
    IF tr.playback_thread_sender # 0
    THEN [tr EXCEPT !.tasks[tr.playback_thread_sender].queue = Append(@, msg),
                    !.sent = tr.sent + 1]
    ELSE [tr EXCEPT !.sent = tr.sent + 1]

\* if let Some(sender) = &self.playback_thread_sender { sender.try_send(msg) }:
\* queued unless the receiver was dropped or the channel is full; the error
\* is only printed.
try_send(tr, msg) ==
    IF /\ tr.playback_thread_sender # 0
       /\ Alive(tr.tasks[tr.playback_thread_sender])
       /\ Len(tr.tasks[tr.playback_thread_sender].queue) < ChannelCapacity
    THEN [tr EXCEPT !.tasks[tr.playback_thread_sender].queue = Append(@, msg),
                    !.sent = tr.sent + 1]
    ELSE [tr EXCEPT !.sent = tr.sent + 1]

TransportFrame ==
    UNCHANGED <<nodes, last_node, beat_per_minute, sample_rate, samples_buffer, produced,
                dnd, crashed, res, worker, recount, group, sync>>

\* The Play button: a new sink and timer, the cursor reset, a new channel
\* whose sender replaces the previous one, and a spawned task.
Play ==
    /\ last_node # None
    /\ transport.master_audio_sink = "none"
    /\ Len(transport.tasks) < Cardinality(TaskIds)
    /\ transport' = [transport EXCEPT
           !.playback_timer = "running",
           !.playback_idx = 0,
           !.tasks = Append(@, TaskNew(sample_rate)),
           !.playback_thread_sender = Len(transport.tasks) + 1,
           !.master_audio_sink = "playing"]
    /\ TransportFrame

\* The Pause / Unpause button: the command is sent, then the sink and the
\* timer are toggled whatever the send did.
Pause ==
    /\ last_node # None
    /\ transport.master_audio_sink # "none"
    /\ transport.sent < MaxCommands
    /\ LET toggled == IF transport.master_audio_sink = "paused" THEN "playing" ELSE "paused"
           running == IF transport.master_audio_sink = "paused" THEN "running" ELSE "paused"
       IN  transport' = [try_send(transport, <<"Pause">>) EXCEPT
               !.master_audio_sink = toggled,
               !.playback_timer = IF transport.playback_timer = "none" THEN "none" ELSE running]
    /\ TransportFrame

\* The Stop button: the command is sent, the sink cleared and dropped with
\* the timer; the sender is kept.
Stop ==
    /\ transport.master_audio_sink # "none"
    /\ transport.sent < MaxCommands
    /\ transport' =
           IF transport.playback_thread_sender # 0
           THEN [try_send(transport, <<"Stop">>) EXCEPT
                    !.master_audio_sink = "none", !.playback_timer = "none"]
           ELSE transport
    /\ TransportFrame

\* A PlaybackControl::Seek(seek_pos) sent on the current channel.
Seek(seek_pos) ==
    /\ transport.playback_thread_sender # 0
    /\ transport.sent < MaxCommands
    /\ transport' = try_send(transport, <<"Seek", seek_pos>>)
    /\ TransportFrame

\* playback_idx.fetch_add(sample_rate * sample_length_secs * 2): the task
\* keeps the previous value as starting_idx.
FetchAdd(tr, t) ==
    [tr EXCEPT !.tasks[t].starting_idx = tr.playback_idx,
               !.tasks[t].pc = "load",
               !.playback_idx = tr.playback_idx + WindowLen(tr.tasks[t])]

\* The first statement of a spawned task.
TaskStart(t) ==
    /\ t \in 1..Len(transport.tasks)
    /\ transport.tasks[t].pc = "add"
    /\ transport' = FetchAdd(transport, t)
    /\ TransportFrame

\* dest_idx = playback_idx.load(); the mix over [starting_idx, dest_idx); the
\* append to the sink; then select! is entered with a new sleep, which
\* cannot be the ready branch while a command is already queued. A dest_idx
\* below starting_idx panics on the subtraction or on the allocation of the
\* wrapped length.
MixReturns(tr, t, panic) ==
    IF panic
    THEN [tr EXCEPT !.tasks[t].pc = "panicked"]
    ELSE [tr EXCEPT
             !.tasks[t].windows =
                 Append(@, <<tr.tasks[t].starting_idx, tr.playback_idx, tr.tasks[t].after_seek>>),
             !.tasks[t].after_seek = None,
             !.tasks[t].pc = "select",
             !.tasks[t].armed = (tr.tasks[t].queue = <<>>),
             !.tasks[t].sleep_elapsed = 0,
             !.tasks[t].since_window = 0]

TaskMix(t, order, overflow_checks) ==
    /\ t \in 1..Len(transport.tasks)
    /\ transport.tasks[t].pc = "load"
    /\ LET task == transport.tasks[t]
           dest_idx == transport.playback_idx
           panic == \/ dest_idx < task.starting_idx
                    \/ buffer_preview_samples_simd(task.starting_idx, dest_idx,
                           task.sample_rate, nodes, samples_buffer, order, overflow_checks).panic
       IN  transport' = MixReturns(transport, t, panic)
    /\ TransportFrame

\* The mix of task t comes to an end, by returning or by panicking.
TaskMixEnds(t) ==
    /\ t \in 1..Len(transport.tasks)
    /\ transport.tasks[t].pc = "load"
    /\ \E panic \in BOOLEAN : transport' = MixReturns(transport, t, panic)
    /\ TransportFrame

\* A timer branch that produces a window although the task is paused.
TimerBranchIgnoresPause(tr, t) ==
    FetchAdd(tr, t)

\* The sleep branch of select!: a window is started if should_playback,
\* and the loop comes back to select! otherwise.
TimerBranch(tr, t) ==
    IF tr.tasks[t].should_playback
    THEN FetchAdd(tr, t)
    ELSE [tr EXCEPT !.tasks[t].armed = (tr.tasks[t].queue = <<>>),
                    !.tasks[t].sleep_elapsed = 0]

TaskTimer(t) ==
    /\ t \in 1..Len(transport.tasks)
    /\ transport.tasks[t].pc = "select"
    /\ transport.tasks[t].armed
    /\ Len(transport.tasks[t].windows) < MaxWindows
    /\ transport' = TimerBranch(transport, t)
    /\ TransportFrame

\* A command branch in which Stop does not end the task.
CommandBranchIgnoresStop(tr, t, msg) ==
    IF msg[1] = "Pause"
    THEN [tr EXCEPT !.tasks[t].should_playback = ~tr.tasks[t].should_playback]
    ELSE IF msg[1] = "Stop"
    THEN tr
    ELSE [tr EXCEPT !.playback_idx = msg[2], !.tasks[t].after_seek = <<msg[2]>>, !.seeked = TRUE]

\* The command branch of select!: match seek_control { Pause, Stop, Seek }.
CommandBranch(tr, t, msg) ==
    IF msg[1] = "Pause"
    THEN [tr EXCEPT !.tasks[t].should_playback = ~tr.tasks[t].should_playback]
    ELSE IF msg[1] = "Stop"
    THEN [tr EXCEPT !.tasks[t].pc = "stopped"]
    ELSE [tr EXCEPT !.playback_idx = msg[2], !.tasks[t].after_seek = <<msg[2]>>, !.seeked = TRUE]

TaskRecv(t) ==
    /\ t \in 1..Len(transport.tasks)
    /\ transport.tasks[t].pc = "select"
    /\ transport.tasks[t].queue # <<>>
    /\ LET msg == Head(transport.tasks[t].queue)
           rest == Tail(transport.tasks[t].queue)
       IN  transport' = CommandBranch(
               [transport EXCEPT !.tasks[t].queue = rest, !.tasks[t].armed = (rest = <<>>),
                                 !.tasks[t].sleep_elapsed = 0],
               t, msg)
    /\ TransportFrame

\* The sleep that task t created when it last entered select! has run its
\* sample_length_secs seconds.
Expired(t) ==
    /\ t \in 1..Len(transport.tasks)
    /\ transport.tasks[t].sleep_elapsed = sample_length_secs

TimedTimer(t) == Expired(t) /\ TaskTimer(t)

\* One second passes. The runtime polls a task as soon as its sleep has
\* expired or a command is in its channel, and a task that is not in
\* select! does not wait: no second passes before such a task has run.
\* since_window stops counting one second past the period.
Tick ==
    /\ \E t \in 1..Len(transport.tasks) : Alive(transport.tasks[t])
    /\ \A t \in 1..Len(transport.tasks) :
          Alive(transport.tasks[t]) =>
              /\ transport.tasks[t].pc = "select"
              /\ transport.tasks[t].queue = <<>>
              /\ transport.tasks[t].sleep_elapsed < sample_length_secs
    /\ transport' = [transport EXCEPT !.tasks =
           [t \in 1..Len(transport.tasks) |->
               IF Alive(transport.tasks[t])
               THEN [transport.tasks[t] EXCEPT
                        !.sleep_elapsed = @ + 1,
                        !.since_window = Min(@ + 1, sample_length_secs + 1)]
               ELSE transport.tasks[t]]]
    /\ TransportFrame

-----------------------------------------------------------------------------
(* MusicGrid::recount_sample_length *)

\* for sample in &samples { sample_count += (n_frames? * channels?.count()
\* as u64) as u128 }: the product is a u64, which panics on overflow in a
\* build with overflow checks and wraps in one without; a missing field
\* returns the error at once.
RECURSIVE RecountLoop(_, _, _, _)
RecountLoop(samples, i, sample_count, overflow_checks) ==
    IF i > Len(samples) THEN [kind |-> "ok", value |-> sample_count]
    ELSE IF samples[i].n_frames = None \/ samples[i].channels = None
    THEN [kind |-> "err", value |-> 0]
    ELSE LET product == samples[i].n_frames[1] * samples[i].channels[1]
         IN  IF product >= Word /\ overflow_checks
             THEN [kind |-> "panic", value |-> 0]
             ELSE RecountLoop(samples, i + 1, (sample_count + (product % Word)) % Wide,
                              overflow_checks)

recount_sample_length(samples, overflow_checks) ==
    RecountLoop(samples, 1, 0, overflow_checks)

\* A call of recount_sample_length.
Recount(samples, overflow_checks) ==
    /\ recount' = [samples |-> samples,
                   result |-> recount_sample_length(samples, overflow_checks)]
    /\ UNCHANGED <<nodes, last_node, beat_per_minute, sample_rate, samples_buffer, produced,
                   dnd, crashed, res, worker, transport, group, sync>>

-----------------------------------------------------------------------------
(* ItemGroup called from several threads *)

\* DashMap::insert: the value stored under the key is replaced.
DashMapInsert(g, key, m) == [k \in DOMAIN g \cup {key} |-> IF k = key THEN m ELSE g[k]]

\* The positions of m without k, the others in their order.
ShiftRemove(m, k) == SelectSeq(m, LAMBDA p : p # k)

GroupFrame ==
    UNCHANGED <<nodes, last_node, beat_per_minute, sample_rate, samples_buffer, produced,
                dnd, crashed, res, worker, transport, recount, sync>>

\* ItemGroup::insert up to the end of its get_mut: under the shard's lock the
\* track is found and the value stored, or the track is found absent and the
\* lock is released.
GroupInsertBegin(c, key, inner_key, value) ==
    /\ group.callers[c].pc # "absent"
    /\ IF key \in DOMAIN group.inner
       THEN group' =
              [group EXCEPT
                 !.inner = insert(group.inner, key, inner_key, value),
                 !.order[key] = IF HasKey(group.inner, key, inner_key)
                                THEN @ ELSE Append(@, inner_key),
                 !.callers[c] = [pc |-> "done", key |-> key, inner_key |-> inner_key,
                                 value |-> value, absent |-> FALSE]]
       ELSE group' =
              [group EXCEPT
                 !.callers[c] = [pc |-> "absent", key |-> key, inner_key |-> inner_key,
                                 value |-> value, absent |-> TRUE]]
    /\ GroupFrame

\* ItemGroup::insert, the else branch: a new IndexMap holding the one entry
\* is stored under the track.
GroupInsertEnd(c) ==
    LET call == group.callers[c]
    IN  /\ call.pc = "absent"
        /\ group' =
              [group EXCEPT
                 !.inner = DashMapInsert(group.inner, call.key,
                                         <<<<call.inner_key, call.value>>>>),
                 !.order = DashMapInsert(group.order, call.key, <<call.inner_key>>),
                 !.callers[c].pc = "done"]
        /\ GroupFrame

\* ItemGroup::remove, and the swap_remove calls of MusicGrid::show: under the
\* shard's lock.
GroupRemove(key, inner_key) ==
    /\ HasKey(group.inner, key, inner_key)
    /\ group' = [group EXCEPT !.inner = remove(group.inner, key, inner_key),
                              !.order[key] = ShiftRemove(@, inner_key)]
    /\ GroupFrame

-----------------------------------------------------------------------------
\* A call of safe_mut_slice(vec, start..end) on a vec of length len.
SafeMutSlice(len, start, end, overflow_checks) ==
    /\ LET sl == safe_mut_slice(len, start, end, overflow_checks)
       IN  res' = [NoCall EXCEPT !.fn = "safe_mut_slice",
                                 !.args = <<len, start, end, overflow_checks>>,
                                 !.panic = sl.panic, !.buf = <<sl.lo, sl.hi>>]
    /\ UNCHANGED <<nodes, last_node, beat_per_minute, sample_rate, samples_buffer, produced,
                   dnd, crashed>>
    /\ UNCHANGED ext

-----------------------------------------------------------------------------
(* The locks: the parking_lot Mutex of each clip's SampleBuffer and the     *)
(* read-write lock of each shard of the index's DashMap, taken by the       *)
(* sample parsing threads, by the tasks in buffer_preview_samples_simd and  *)
(* by the UI thread.                                                        *)

SyncFrame ==
    UNCHANGED <<nodes, last_node, beat_per_minute, sample_rate, samples_buffer, produced,
                dnd, crashed, res, worker, transport, recount, group>>

\* The drop of a MutexGuard of clip c's buffer.
DropGuard(sy, c) == [sy EXCEPT !.lock[c] = None]

\* An unwinding that leaves the buffer locked.
UnwindLeaksGuard(sy, c) == sy

\* The unwinding of a sample parsing thread out of decode(..).unwrap():
\* chunk_buffer's guard is dropped; a parking_lot Mutex is not poisoned.
Unwind(sy, c) == DropGuard(sy, c)

\* A guard that lives on into the next iteration of the loop over the clips.
GuardOutlivesBody(sy, c) == sy

\* The end of the body of the loop over a track's clips, by continue or by
\* reaching its end: node_samples goes out of scope.
EndOfBody(sy, c) == DropGuard(sy, c)

\* receiver.recv() returns a request; the thread returns if its backlog is
\* empty and goes on to lock the buffer otherwise.
ThreadRecv(c) ==
    /\ sync.workers[c].pc = "recv"
    /\ sync.workers[c].queue > 0
    /\ sync' = [sync EXCEPT
          !.workers[c].queue = @ - 1,
          !.workers[c].pc = IF sync.workers[c].backlog = 0 THEN "returned" ELSE "lock"]
    /\ SyncFrame

\* samples_buffer_handle_clone.get_inner() returns: the thread holds the lock.
ThreadLock(c) ==
    /\ sync.workers[c].pc = "lock"
    /\ sync.lock[c] = None
    /\ sync' = [sync EXCEPT !.lock[c] = WorkerOf(c), !.workers[c].pc = "decoding"]
    /\ SyncFrame

\* The rest of the handling of the request, with the lock held: the packets
\* are decoded and resampled and the samples appended, or a decode returns
\* an Err and unwrap panics.
ThreadDecode(c, ok) ==
    /\ sync.workers[c].pc = "decoding"
    /\ sync' = IF ok
               THEN [DropGuard(sync, c) EXCEPT
                        !.workers[c].pc = "recv",
                        !.workers[c].backlog = @ - 1,
                        !.workers[c].len = @ + 1]
               ELSE [Unwind(sync, c) EXCEPT !.workers[c].pc = "panicked"]
    /\ SyncFrame

\* The receiver of clip c's request channel has not been dropped.
Receiving(sy, c) == sy.workers[c].pc \notin {"panicked", "returned"}

\* The shard dashmap's iterator locks after the one it is at: the shards in
\* index order; 0 when there is none.
NextShard(sy, m) ==
    LET later == {s \in Shards : s > sy.mixers[m].shard}
    IN  IF later = {} THEN 0 ELSE CHOOSE s \in later : \A r \in later : s <= r

\* The iterator's read guard on its shard is dropped.
LeaveShard(sy, m) ==
    [sy EXCEPT !.readers = [s \in Shards |-> sy.readers[s] \ {m}]]

\* A task calls buffer_preview_samples_simd: nodes.values() is created.
MixCall(m) ==
    /\ sync.mixers[m].pc = "idle"
    /\ sync.mixers[m].calls < MaxMixCalls
    /\ sync' = [sync EXCEPT !.mixers[m].pc = "iter", !.mixers[m].result = "none"]
    /\ SyncFrame

\* The iterator goes on to the next shard: it takes that shard's read lock
\* and then drops the guard of the shard it leaves.
MixEnterShard(m) ==
    LET s == NextShard(sync, m)
    IN  /\ sync.mixers[m].pc = "iter"
        /\ sync.mixers[m].tracks = {}
        /\ s # 0
        /\ ~sync.writer[s]
        /\ sync' = [LeaveShard(sync, m) EXCEPT
              !.readers[s] = @ \cup {m},
              !.mixers[m].shard = s,
              !.mixers[m].tracks = {t \in DOMAIN nodes : sync.shard_of[t] = s}]
        /\ SyncFrame

\* The iterator is exhausted and the mix returns its buffer.
MixReturn(m) ==
    /\ sync.mixers[m].pc = "iter"
    /\ sync.mixers[m].tracks = {}
    /\ NextShard(sync, m) = 0
    /\ sync' = [LeaveShard(sync, m) EXCEPT
          !.mixers[m].pc = "idle", !.mixers[m].shard = 0,
          !.mixers[m].calls = @ + 1, !.mixers[m].result = "returned"]
    /\ SyncFrame

\* The iterator yields track t of its shard.
MixTakeTrack(m, t) ==
    /\ sync.mixers[m].pc = "iter"
    /\ t \in sync.mixers[m].tracks
    /\ sync' = IF Len(nodes[t]) = 0
               THEN [sync EXCEPT !.mixers[m].tracks = @ \ {t}]
               ELSE [sync EXCEPT !.mixers[m].tracks = @ \ {t}, !.mixers[m].track = t,
                                 !.mixers[m].idx = 1, !.mixers[m].pc = "entry"]
    /\ SyncFrame

\* The clip the task is at.
ClipOf(sy, m) == nodes[sy.mixers[m].track][sy.mixers[m].idx][2]

\* node.samples_buffer.get_inner() returns: the task holds the clip's lock.
MixLock(m) ==
    /\ sync.mixers[m].pc = "entry"
    /\ sync.lock[ClipOf(sync, m)] = None
    /\ sync' = [sync EXCEPT !.lock[ClipOf(sync, m)] = MixerOf(m), !.mixers[m].pc = "locked"]
    /\ SyncFrame

\* request_default_count_sample_parsing: queued while the receiver lives;
\* the Err of a dropped receiver is printed.
Request(sy, c) ==
    IF Receiving(sy, c) /\ sy.workers[c].queue < MaxQueued
    THEN [sy EXCEPT !.workers[c].queue = @ + 1]
    ELSE sy

\* The body of the loop for the clip, with the lock held: the clip is
\* skipped, or it is sent a request and summed into the buffer, which
\* returns or panics in its range arithmetic. The panic unwinds the task.
MixEntry(m, skip, panic) ==
    LET c == ClipOf(sync, m)
        mixer == sync.mixers[m]
        sent == IF skip THEN sync ELSE Request(sync, c)
    IN  /\ mixer.pc = "locked"
        /\ skip => ~panic
        /\ sync' = IF panic
                   THEN [LeaveShard(DropGuard(sent, c), m) EXCEPT
                            !.mixers[m].pc = "idle", !.mixers[m].shard = 0,
                            !.mixers[m].tracks = {}, !.mixers[m].track = 0,
                            !.mixers[m].idx = 0,
                            !.mixers[m].calls = @ + 1, !.mixers[m].result = "panicked"]
                   ELSE IF mixer.idx < Len(nodes[mixer.track])
                   THEN [EndOfBody(sent, c) EXCEPT
                            !.mixers[m].pc = "entry", !.mixers[m].idx = @ + 1]
                   ELSE [EndOfBody(sent, c) EXCEPT
                            !.mixers[m].pc = "iter", !.mixers[m].track = 0,
                            !.mixers[m].idx = 0]
        /\ SyncFrame

\* MusicGrid::insert_node on the UI thread: ItemGroup::insert takes the write
\* lock of the track's shard, which no iterator may hold.
UiInsert(channel, position, node) ==
    /\ sync.ui.pc = "idle"
    /\ sync.readers[sync.shard_of[channel]] = {}
    /\ insert_node(channel, position, node)

\* MusicGrid::show comes to self.nodes.inner().get_mut(&row).
UiShowCall(row) ==
    /\ sync.ui.pc = "idle"
    /\ row \in DOMAIN nodes
    /\ sync' = [sync EXCEPT !.ui = [pc |-> "want", row |-> row]]
    /\ SyncFrame

\* get_mut returns: the UI thread holds the write lock of the row's shard.
UiShowLock ==
    /\ sync.ui.pc = "want"
    /\ sync.readers[sync.shard_of[sync.ui.row]] = {}
    /\ sync' = [sync EXCEPT !.writer[sync.shard_of[sync.ui.row]] = TRUE, !.ui.pc = "show"]
    /\ SyncFrame

\* The row has been drawn, with or without a Delete of the clip at a
\* position: sound_nodes is dropped, and last_node is recomputed after a
\* Delete.
UiShowEnd(delete, position) ==
    /\ sync.ui.pc = "show"
    /\ sync' = [sync EXCEPT !.writer[sync.shard_of[sync.ui.row]] = FALSE,
                            !.ui = [pc |-> "idle", row |-> 0]]
    /\ IF delete /\ HasKey(nodes, sync.ui.row, position)
       THEN /\ nodes' = remove(nodes, sync.ui.row, position)
            /\ last_node' \in calculate_last_node(nodes', beat_per_minute)
            /\ res' = Mutation("delete", <<>>, 0)
       ELSE UNCHANGED <<nodes, last_node, res>>
    /\ UNCHANGED <<beat_per_minute, sample_rate, samples_buffer, produced, dnd, crashed,
                   worker, transport, recount, group>>

-----------------------------------------------------------------------------
(* The timeline: every mutation of the index, from the API and from the UI *)

Next ==
    \/ \E t \in Tracks, p \in Positions, c \in ClipIds : insert_node(t, p, c)
    \/ \E c \in ClipIds, p \in Positions : regsiter_dnd_drop(c, p)
    \/ \E ptr \in PointerRows : ShowDrop(ptr)
    \/ \E ptr \in PointerRows, t \in Tracks, p \in Positions, b \in Positions :
          ShowDragStop(ptr, t, p, b)
    \/ \E ptr \in PointerRows, t \in Tracks, p \in Positions : ShowDelete(ptr, t, p)
    \/ ClearMusicGrid
    \/ \E b \in BpmValues : SetBpm(b)

Spec == Init /\ [][Next]_vars

(* The mixers: a grid filled through the API, whose clips' workers produce   *)
(* samples, is previewed and streamed.                                      *)

NextMix ==
    \/ \E t \in Tracks, p \in Positions, c \in ClipIds : insert_node(t, p, c)
    \/ ClearMusicGrid
    \/ \E b \in BpmValues : SetBpm(b)
    \/ \E r \in SampleRates : SetSampleRate(r)
    \/ \E c \in ClipIds : WorkerAppend(c)
    \/ \E order \in Orders(DOMAIN nodes) : CreatePreviewSimd(order)
    \/ \E order \in Orders(DOMAIN nodes) : CreatePreview(order)
    \/ \E a \in WindowStarts, b \in WindowEnds, order \in Orders(DOMAIN nodes),
          overflow_checks \in BOOLEAN : BufferPreview(a, b, order, overflow_checks)

SpecMix == Init /\ [][NextMix]_vars

(* The worker: a clip made from a file, or a default clip, receives parsing *)
(* requests of the default and of custom counts.                            *)

InitWorker ==
    /\ InitGrid
    /\ worker \in {WorkerNew, WorkerDefault}
    /\ transport = TransportNew
    /\ recount = NoRecount
    /\ group = GroupNew
    /\ sync = SyncNew([t \in Tracks |-> t])

NextWorker ==
    \/ request_default_count_sample_parsing
    \/ \E count \in CustomCounts : request_custom_count_sample_parsing(count)
    \/ WorkerHandle

SpecWorker == InitWorker /\ [][NextWorker]_vars

(* The shared ItemGroup: threads insert clips into a track and remove them *)

NextGroup ==
    \/ \E c \in CallerIds, inner_key \in GroupPositions, value \in ClipIds :
          GroupInsertBegin(c, GroupTrack, inner_key, value)
    \/ \E c \in CallerIds : GroupInsertEnd(c)
    \/ \E inner_key \in GroupPositions : GroupRemove(GroupTrack, inner_key)

SpecGroup == Init /\ [][NextGroup]_vars

(* safe_mut_slice is called on vecs of every length and with every range, *)
(* in builds with and without overflow checks.                            *)

NextSlice ==
    \E len \in 0..MaxLen, start \in 0..(MaxLen + 1), end \in 0..(MaxLen + 2),
       overflow_checks \in BOOLEAN :
        SafeMutSlice(len, start, end, overflow_checks)

SpecSlice == Init /\ [][NextSlice]_vars

(* The locks: clips are inserted and deleted on the UI thread while their *)
(* workers parse and the tasks mix. The tracks are all in one shard of    *)
(* the index, or each in its own.                                         *)

InitLocks ==
    /\ InitGrid
    /\ worker = WorkerNew
    /\ transport = TransportNew
    /\ recount = NoRecount
    /\ group = GroupNew
    /\ sync \in {SyncNew([t \in Tracks |-> 1]), SyncNew([t \in Tracks |-> t])}

NextLocks ==
    \/ \E c \in ClipIds : ThreadRecv(c)
    \/ \E c \in ClipIds : ThreadLock(c)
    \/ \E c \in ClipIds, ok \in BOOLEAN : ThreadDecode(c, ok)
    \/ \E m \in MixerIds : MixCall(m)
    \/ \E m \in MixerIds : MixEnterShard(m)
    \/ \E m \in MixerIds : MixReturn(m)
    \/ \E m \in MixerIds, t \in Tracks : MixTakeTrack(m, t)
    \/ \E m \in MixerIds : MixLock(m)
    \/ \E m \in MixerIds, skip \in BOOLEAN, panic \in BOOLEAN : MixEntry(m, skip, panic)
    \/ \E e \in LockInserts : UiInsert(e[1], e[2], e[3])
    \/ \E row \in Tracks : UiShowCall(row)
    \/ UiShowLock
    \/ \E delete \in BOOLEAN, position \in Positions : UiShowEnd(delete, position)

SpecLocks == InitLocks /\ [][NextLocks]_vars

\* A step of the sample parsing thread of clip c, of task m, and of the UI
\* thread between get_mut and the end of the row.
ThreadStep(c) == ThreadRecv(c) \/ ThreadLock(c) \/ \E ok \in BOOLEAN : ThreadDecode(c, ok)

MixStep(m) ==
    \/ MixEnterShard(m)
    \/ MixReturn(m)
    \/ \E t \in Tracks : MixTakeTrack(m, t)
    \/ MixLock(m)
    \/ \E skip \in BOOLEAN, panic \in BOOLEAN : MixEntry(m, skip, panic)

UiShowStep == UiShowLock \/ \E delete \in BOOLEAN, position \in Positions : UiShowEnd(delete, position)

\* The operating system schedules the sample parsing threads and the UI
\* thread whenever they can run, and the runtime polls the task; the shard
\* lock the UI thread takes and drops on every frame is handed to the
\* task's iterator, which blocks until it has it.
SpecLocksFair ==
    /\ SpecLocks
    /\ \A c \in ClipIds : WF_vars(ThreadStep(c))
    /\ \A m \in MixerIds : SF_vars(MixStep(m))
    /\ WF_vars(UiShowStep)

(* The recount: recount_sample_length is called on lists of parameters *)

ParameterLists == UNION {[1..n -> CodecParameters] : n \in 0..MaxList}

NextRecount ==
    \E samples \in ParameterLists, overflow_checks \in BOOLEAN :
        Recount(samples, overflow_checks)

SpecRecount == Init /\ [][NextRecount]_vars

(* The transport: clip 1 is placed on track 1, playback is started, paused, *)
(* stopped and sought, and the spawned tasks run on the runtime's threads.  *)

TaskNext ==
    \/ \E t \in TaskIds : TaskStart(t)
    \/ \E t \in TaskIds : \E order \in Orders(DOMAIN nodes), overflow_checks \in BOOLEAN :
          TaskMix(t, order, overflow_checks)
    \/ \E t \in TaskIds : TaskTimer(t)
    \/ \E t \in TaskIds : TaskRecv(t)

NextTransport ==
    \/ insert_node(1, 0, 1)
    \/ Play
    \/ Pause
    \/ Stop
    \/ \E seek_pos \in SeekPositions : Seek(seek_pos)
    \/ TaskNext

SpecTransport == Init /\ [][NextTransport]_vars

(* The transport in time: one session is played, paused and sought while *)
(* the seconds pass.                                                      *)

NextTimed ==
    \/ insert_node(1, 0, 1)
    \/ Play
    \/ Pause
    \/ \E seek_pos \in SeekPositions : Seek(seek_pos)
    \/ \E t \in TaskIds : TaskStart(t)
    \/ \E t \in TaskIds : \E order \in Orders(DOMAIN nodes), overflow_checks \in BOOLEAN :
          TaskMix(t, order, overflow_checks)
    \/ \E t \in TaskIds : TimedTimer(t)
    \/ \E t \in TaskIds : TaskRecv(t)
    \/ Tick

SpecTimed == Init /\ [][NextTimed]_vars

\* A step of task t.
TaskStep(t) ==
    \/ TaskStart(t)
    \/ TaskMixEnds(t)
    \/ TaskTimer(t)
    \/ TaskRecv(t)

\* The runtime polls every spawned task that is ready to run, and a mix
\* comes to an end.
SpecTransportFair == SpecTransport /\ \A t \in TaskIds : WF_vars(TaskStep(t))

-----------------------------------------------------------------------------
(* Properties of the timeline index, checked under Spec *)

\* The number of entries of position map m stored under position p.
CountAt(m, p) == Cardinality({i \in 1..Len(m) : m[i][1] = p})

\* Every <<position, clip>> the index holds.
Pairs(g) == {<<e[2], e[3]>> : e \in Entries(g)}

\* The end time of <<position, clip>> e, position * 60 / bpm + duration seconds,
\* multiplied by bpm * DurDen.
EndTime(e, bpm) == e[1] * 60 * DurDen + DurNum(e[2]) * bpm

\* r is the extent of g: None when g holds no clip, else a pair of g of maximal end time.
IsFurthest(r, g, bpm) ==
    IF Pairs(g) = {} THEN r = None
    ELSE r \in Pairs(g) /\ \A q \in Pairs(g) : EndTime(q, bpm) <= EndTime(r, bpm)

\* C3: an insert at a (track, position) that already holds a clip, as the second
\* of two inserts at the same track and position does, replaces the occupant:
\* afterwards the track holds exactly one clip at that position, the one just
\* inserted, and the number of entries of the track, the set of tracks and
\* every other track are unchanged.
C3_InsertReplacesOccupant ==
    [][(res'.fn = "insert_node" /\ HasKey(nodes, res'.args[1], res'.args[2])) =>
         LET t == res'.args[1]
             p == res'.args[2]
             c == res'.args[3]
         IN  /\ CountAt(nodes'[t], p) = 1
             /\ ClipAt(nodes', t, p) = c
             /\ Len(nodes'[t]) = Len(nodes[t])
             /\ DOMAIN nodes' = DOMAIN nodes
             /\ \A u \in DOMAIN nodes \ {t} : nodes'[u] = nodes[u]]_vars

\* An insert has replaced a different clip while another track held a clip.
C3_Witness ==
    /\ res.fn = "insert_node"
    /\ res.replaced \notin {0, res.args[3]}
    /\ ClipAt(nodes, res.args[1], res.args[2]) = res.args[3]
    /\ \E u \in DOMAIN nodes \ {res.args[1]} : Len(nodes[u]) > 0

\* C4: after insert_node or a Delete, the extent calculate_last_node returned
\* is the <<position, clip>> pair of maximal end time (position in seconds at
\* the tempo, plus the clip's duration) over all clips of all tracks, and is
\* None exactly when the index holds no clip.
C4_LastNodeIsFurthest ==
    res.fn \in {"insert_node", "delete"} => IsFurthest(last_node, nodes, beat_per_minute)

\* C5: after every timeline mutation the cached extent last_node is None
\* exactly when the index holds no clip, otherwise is a <<position, clip>> of
\* the index, and equals the extent recomputed from the index.
C5_LastNodeIsCurrent ==
    /\ last_node = None <=> Pairs(nodes) = {}
    /\ last_node # None => last_node \in Pairs(nodes)
    /\ res.fn \in {"insert_node", "drop", "drag_stop", "delete", "clear"}
           => last_node \in calculate_last_node(nodes, beat_per_minute)

-----------------------------------------------------------------------------
(* Properties of the mixers, checked under SpecMix. A mixer call leaves the  *)
(* index, the extent, the tempo and the sample rate as they were, and        *)
(* res.pre_samples holds the clips' buffers the call started from.           *)

IsFullPreview == res.fn \in {"create_preview_samples_simd", "create_preview_samples"}

\* Sample k (from 0) of the buffer clip c held when the call started, 0 outside it.
Contribution(c, k) ==
    IF k >= 0 /\ k < Len(res.pre_samples[c]) THEN res.pre_samples[c][k + 1] ELSE 0

\* C1: the scalar full preview, run from the state a SIMD full preview started
\* from (same index, extent, sample rate, tempo, clip buffers and iteration
\* order), panics exactly when the SIMD one did and returns the same buffer.
C1_ScalarEqualsSimd ==
    res.fn = "create_preview_samples_simd" =>
        LET r == create_preview_samples(nodes, last_node, sample_rate, beat_per_minute,
                                        res.pre_samples, res.args[1])
        IN  r.panic = res.panic /\ r.buf = res.buf

\* C2: for global sample indices a <= b <= c, the windowed mix of [a, b)
\* followed by the windowed mix of [b, c) is the windowed mix of [a, c), all
\* three run by the same build on the same index and clip buffers, in any
\* iteration order of the tracks.
C2_WindowsConcatenate ==
    res.fn = "buffer_preview_samples_simd" =>
        \A b \in {w \in WindowStarts \cup WindowEnds : res.args[1] <= w /\ w <= res.args[2]},
           order \in Orders(DOMAIN nodes) :
            LET x == buffer_preview_samples_simd(res.args[1], b, sample_rate, nodes,
                                                 samples_buffer, order, res.args[3])
                y == buffer_preview_samples_simd(b, res.args[2], sample_rate, nodes,
                                                 samples_buffer, order, res.args[3])
            IN  ~res.panic /\ ~x.panic /\ ~y.panic /\ x.buf \o y.buf = res.buf

\* C6: with a single clip in the index, at beat position 0, whose shared
\* buffer holds n > 0 samples, the full preview returns exactly those n samples.
C6_SingleClipVerbatim ==
    \A e \in Entries(nodes) :
        (IsFullPreview /\ Entries(nodes) = {e} /\ e[2] = 0 /\ Len(res.pre_samples[e[3]]) > 0)
            => ~res.panic /\ res.buf = res.pre_samples[e[3]]

\* The output index a clip at beat position 1 starts at in the called variant.
BeatOffset ==
    IF res.fn = "create_preview_samples_simd"
    THEN samples_per_beat_simd(sample_rate, beat_per_minute)
    ELSE CeilDiv(sample_rate * beat_per_minute, 60)

\* C7: with two different clips, one at beat position 0 and one at beat
\* position 1 starting at output index N, the first longer than N, the full
\* preview covers the first clip and every output index holds the sum of the
\* samples of the clips covering it (0 where none does).
C7_OverlapIsSummed ==
    \A e0, e1 \in Entries(nodes) :
        (/\ IsFullPreview
         /\ Entries(nodes) = {e0, e1}
         /\ e0[2] = 0 /\ e1[2] = 1 /\ e0[3] # e1[3]
         /\ Len(res.pre_samples[e0[3]]) > BeatOffset)
            => /\ ~res.panic
               /\ Len(res.buf) >= Len(res.pre_samples[e0[3]])
               /\ \A i \in 1..Len(res.buf) :
                      res.buf[i] = Contribution(e0[3], i - 1)
                                     + Contribution(e1[3], i - 1 - BeatOffset)

\* C8: on an index that holds a clip, at any tempo and sample rate, the
\* full preview does not panic.
C8_FullPreviewNeverPanics ==
    (IsFullPreview /\ Entries(nodes) # {}) => ~res.panic

\* C9: without a cached extent the full preview returns an empty buffer and
\* does not panic.
C9_NoExtentYieldsEmpty ==
    (IsFullPreview /\ last_node = None) => ~res.panic /\ res.buf = <<>>

\* Global sample index g lies in the produced samples of some clip of the index.
Covered(g) ==
    \E e \in Entries(nodes) :
        /\ e[2] * sample_rate * 2 <= g
        /\ g < e[2] * sample_rate * 2 + Len(samples_buffer[e[3]])

\* C10: the windowed mix of [start, end), start <= end, does not panic and
\* returns end - start samples, 0 at every index no produced clip sample covers.
C10_WindowIsTotal ==
    res.fn = "buffer_preview_samples_simd" =>
        /\ ~res.panic
        /\ Len(res.buf) = res.args[2] - res.args[1]
        /\ \A i \in 1..Len(res.buf) : ~Covered(res.args[1] + i - 1) => res.buf[i] = 0

-----------------------------------------------------------------------------
(* Properties of the worker, checked under SpecWorker. A step that raises   *)
(* worker.sent is a request returning to its caller; a step that changes    *)
(* anything else of the worker is the thread handling a request.            *)

Requested == worker'.sent = worker.sent + 1
Handled == worker'.sent = worker.sent /\ worker' # worker
\* The clip was made from a file and its backlog has run out.
Exhausted(w) == w.first_packet # 0 /\ w.packet_list = <<>>
BufferLen == Len(samples_buffer[WorkerClip])

C12_RequestOnFinishedWorkerErrs ==
    [][(Requested /\ worker.channel # "open")
        => /\ worker'.result = "err"
           /\ worker'.packet_list = worker.packet_list
           /\ worker'.queue = worker.queue
           /\ samples_buffer' = samples_buffer]_vars

\* A request on a default clip, which has no channel, has returned an error.
C12_Witness ==
    /\ worker.channel = "none"
    /\ worker.sent > 0
    /\ worker.result = "err"

\* C13: the packets handed to the decoder, over all requests, are in the
\* stream order of the file: no packet is decoded after a later one.
C13_DecodedInStreamOrder ==
    \A i, j \in 1..Len(worker.decoded) :
        i < j => worker.decoded[i] <= worker.decoded[j]

\* Samples the whole file yields once resampled: every InFrames frames of
\* its packets give one output block.
ResampledLength == ((NumPackets * PacketFrames) \div InFrames) * OutChunk
TimesDecoded(w, p) == Cardinality({i \in 1..Len(w.decoded) : w.decoded[i] = p})

\* C14: over any sequence of requests each packet's samples enter the
\* scratch buffers at most once, and the samples appended to the shared
\* buffer never exceed the resampled length of the file.
C14_EachPacketOnce ==
    /\ \A p \in 1..NumPackets : TimesDecoded(worker, p) <= 1
    /\ BufferLen <= ResampledLength

\* Requests of less than one packet only: the backlog is whole and the buffer
\* holds more than the file.
C14_SmallRequestsOverrun ==
    /\ worker.packet_list = [i \in 1..NumPackets |-> i]
    /\ BufferLen > ResampledLength

-----------------------------------------------------------------------------
(* Properties of the transport, checked under SpecTransport. A task's       *)
(* windows are the ranges it mixed and handed to its sink, in order.        *)

\* C15: while no Seek has been handled, the k-th window a task hands to its
\* sink, counted from 0, is [k * W, (k + 1) * W) with
\* W = sample_rate * sample_length_secs * 2.
C15_WindowsTileFromZero ==
    ~transport.seeked =>
        \A t \in 1..Len(transport.tasks) :
            \A k \in 1..Len(transport.tasks[t].windows) :
                /\ transport.tasks[t].windows[k][1] = (k - 1) * WindowLen(transport.tasks[t])
                /\ transport.tasks[t].windows[k][2] = k * WindowLen(transport.tasks[t])
\* No Seek was handled, and the first window of the second session does not
\* start at 0: the task of the stopped session moved the cursor.
C15_SecondSessionShifted ==
    /\ ~transport.seeked
    /\ Len(transport.tasks) = 2
    /\ Len(transport.tasks[2].windows) > 0
    /\ transport.tasks[2].windows[1][1] # 0
Paused(tr, t) == t \in 1..Len(tr.tasks) /\ tr.tasks[t].pc = "select" /\ ~tr.tasks[t].should_playback

StopQueued(t) ==
    /\ t \in 1..Len(transport.tasks)
    /\ \E i \in 1..Len(transport.tasks[t].queue) : transport.tasks[t].queue[i] = <<"Stop">>
Ended(t) == t \in 1..Len(transport.tasks) /\ ~Alive(transport.tasks[t])

\* C17: a task that was sent Stop, playing or paused, eventually ends; a
\* task that has ended hands no further window to its sink; and the Stop
\* button leaves the application with no sink and no timer.
C17_StopTerminates ==
    /\ \A t \in TaskIds : StopQueued(t) ~> Ended(t)
    /\ [][\A t \in TaskIds : Ended(t) => transport'.tasks[t] = transport.tasks[t]]_vars
    /\ [][Stop => /\ transport'.master_audio_sink = "none"
                   /\ transport'.playback_timer = "none"]_vars

\* A task that had handed a window to its sink has ended on Stop, while it
\* was paused, and the application is idle.
C17_Witness ==
    /\ transport.master_audio_sink = "none"
    /\ transport.playback_timer = "none"
    /\ Len(transport.tasks) = 1
    /\ transport.tasks[1].pc = "stopped"
    /\ ~transport.tasks[1].should_playback
    /\ Len(transport.tasks[1].windows) > 0

(* A further property of the transport, checked under SpecTransport *)

\* C18: the first window a task hands to its sink after it handled Seek(s)
\* is [s, s + W).
C18_SeekRedirectsNextWindow ==
    \A t \in 1..Len(transport.tasks) :
        \A k \in 1..Len(transport.tasks[t].windows) :
            LET w == transport.tasks[t].windows[k]
            IN  w[3] # None
                    => w[1] = w[3][1] /\ w[2] = w[3][1] + WindowLen(transport.tasks[t])
-----------------------------------------------------------------------------
(* A property of recount_sample_length, checked under SpecRecount *)

Complete(samples) ==
    \A i \in 1..Len(samples) : samples[i].n_frames # None /\ samples[i].channels # None
RECURSIVE TotalSamples(_, _)
TotalSamples(samples, i) ==
    IF i > Len(samples) THEN 0
    ELSE samples[i].n_frames[1] * samples[i].channels[1] + TotalSamples(samples, i + 1)
Called == recount.result.kind # "none"

\* C19: on a list whose entries all have n_frames and channels the call
\* returns the sum of n_frames * channel count, whatever n_frames of the
\* word width; on any other list it returns an error.
C19_RecountIsExactSum ==
    Called =>
        IF Complete(recount.samples)
        THEN recount.result = [kind |-> "ok", value |-> TotalSamples(recount.samples, 1)]
        ELSE recount.result.kind = "err"

\* Two complete entries whose products fit the word have been summed.
C19_SmallSumWitness ==
    /\ recount.samples = <<[n_frames |-> <<5>>, channels |-> <<2>>],
                           [n_frames |-> <<3>>, channels |-> <<2>>]>>
    /\ recount.result = [kind |-> "ok", value |-> 16]
-----------------------------------------------------------------------------
(* A property of the clips' shared buffers, checked under SpecMix *)

\* C20: the SIMD full preview and the windowed mix leave every clip's
\* shared buffer as it was when the call started, contents and length.
C20_MixersLeaveBuffers ==
    res.fn \in {"create_preview_samples_simd", "buffer_preview_samples_simd"}
        => samples_buffer = res.pre_samples

\* The SIMD full preview has returned and a clip's buffer is shorter than
\* it was when the call started.
C20_PreviewShortenedBuffer ==
    /\ res.fn = "create_preview_samples_simd"
    /\ ~res.panic
    /\ \E c \in ClipIds : Len(samples_buffer[c]) < Len(res.pre_samples[c])

-----------------------------------------------------------------------------
(* Properties of the shared ItemGroup, checked under SpecGroup *)

\* The positions of position map m, in iteration order.
KeysOf(m) == [i \in 1..Len(m) |-> m[i][1]]

\* C21: whatever inserts and removes have been performed, every track's
\* position map iterates the clips it holds in the order in which they were
\* inserted.
C21_IterationIsInsertionOrder ==
    \A t \in DOMAIN group.inner : KeysOf(group.inner[t]) = group.order[t]

\* A removal has left a track in an order other than that of its insertions.
C21_RemovalReordered ==
    \E t \in DOMAIN group.inner :
        /\ Len(group.inner[t]) = 2
        /\ \A c \in CallerIds : group.callers[c].pc # "absent"
        /\ KeysOf(group.inner[t]) # group.order[t]

\* The entry that caller c's insert stores is in the position map of its track.
Stored(g, c) ==
    LET call == g.callers[c]
    IN  /\ HasKey(g.inner, call.key, call.inner_key)
        /\ ClipAt(g.inner, call.key, call.inner_key) = call.value

\* Callers c and d have both found the same track absent, with distinct
\* positions, and d's insert has returned.
Overlapping(g, c, d) ==
    /\ c # d
    /\ g.callers[c].absent /\ g.callers[d].absent
    /\ g.callers[d].pc = "done"
    /\ g.callers[c].key = g.callers[d].key
    /\ g.callers[c].inner_key # g.callers[d].inner_key

\* C28: when two inserts run concurrently on the same, previously absent
\* track with distinct positions, the return of the second leaves both clips
\* in the track's position map: no insert is lost.
C28_ConcurrentInsertsBothStored ==
    [][\A c, d \in CallerIds :
          (GroupInsertEnd(c) /\ Overlapping(group, c, d) /\ Stored(group, d))
              => (Stored(group', c) /\ Stored(group', d))]_vars

\* Both inserts have found the track absent; one has returned and its clip
\* is stored, the other is about to store its new position map.
C28_BothFoundTrackAbsent ==
    \E c, d \in CallerIds :
        /\ Overlapping(group, c, d)
        /\ group.callers[c].pc = "absent"
        /\ Stored(group, d)

-----------------------------------------------------------------------------
(* Further properties of the mixers, checked under SpecMix *)

IsMixerCall == IsFullPreview \/ res.fn = "buffer_preview_samples_simd"

\* The global sample index the output of the recorded call starts at.
OutputStart == IF IsFullPreview THEN 0 ELSE res.args[1]

\* The number of output positions of the recorded call, made on a clip at
\* beat position 0 whose buffer held n samples, that lie in a lane of the
\* summation: the full lanes and the unpadded part of a short trailing lane.
LanePositions(n) == Max(0, Min(Len(res.buf), n - OutputStart))

\* C22: in each mixer's summation the 32 positions of every full lane, and
\* the unpadded positions of a short trailing lane, are written back with
\* destination + source. With a single clip in the index, at beat position 0,
\* a call that returns holds the clip's sample at every such position.
C22_EveryLanePositionWritten ==
    \A e \in Entries(nodes) :
        (IsMixerCall /\ ~res.panic /\ Entries(nodes) = {e} /\ e[2] = 0)
            => \A i \in 1..LanePositions(Len(res.pre_samples[e[3]])) :
                   res.buf[i] = Contribution(e[3], OutputStart + i - 1)

\* A mixer has returned from summing one clip's full lanes: the last position
\* of the first lane holds what the destination held, not the sum.
C22_LastOfLaneKept ==
    \E e \in Entries(nodes) :
        /\ IsMixerCall /\ ~res.panic /\ Entries(nodes) = {e} /\ e[2] = 0
        /\ LanePositions(Len(res.pre_samples[e[3]])) >= LaneWidth
        /\ \A i \in 1..(LaneWidth - 1) : res.buf[i] = Contribution(e[3], OutputStart + i - 1)
        /\ res.buf[LaneWidth] = 0

-----------------------------------------------------------------------------
(* Properties of safe_mut_slice, checked under SpecSlice *)

\* C23: safe_mut_slice(vec, start..end) does not panic, whatever the length
\* of vec (0 included) and the range (start at or past the length and end
\* past the length included), and the slice it returns is
\* vec[start .. min(end, len)].
C23_SafeSliceIsTotalAndClamped ==
    res.fn = "safe_mut_slice" =>
        LET len == res.args[1]
            start == res.args[2]
            end == res.args[3]
        IN  /\ ~res.panic
            /\ start <= Min(end, len) => res.buf = <<start, Min(end, len)>>

\* safe_mut_slice has returned from a call with a range that lies within a
\* vec that is not empty.
C23_InRangeCall ==
    /\ res.fn = "safe_mut_slice" /\ ~res.panic
    /\ res.args[1] > 0 /\ res.args[2] < res.args[3] /\ res.args[3] <= res.args[1]

-----------------------------------------------------------------------------
(* The two placements, checked under SpecMix *)

\* The windowed mix of [0, L), L the length of the buffer the recorded full
\* preview returned, run from the state that preview started from.
WindowOverPreview(overflow_checks) ==
    buffer_preview_samples_simd(0, Len(res.buf), sample_rate, nodes, res.pre_samples,
                                res.args[1], overflow_checks)

\* The output index the recorded full preview places a clip of that beat
\* position at.
PreviewPosition(position) == position * BeatOffset

\* C24: for the same index, sample rate and tempo, the windowed mix and the
\* full preview place every clip at the same global sample offset, and the
\* windowed mix over [0, L), L the length of the full preview, returns the
\* buffer the full preview returns.
C24_WindowEqualsPreview ==
    (IsFullPreview /\ ~res.panic) =>
        /\ \A e \in Entries(nodes) : NodePosition(e[2], sample_rate) = PreviewPosition(e[2])
        /\ \A overflow_checks \in BOOLEAN :
               LET w == WindowOverPreview(overflow_checks)
               IN  ~w.panic /\ w.buf = res.buf

\* A full preview has returned a buffer that holds a clip at beat position
\* 1, at an index other than the one the windowed mix gives that clip.
C24_ClipPlacedApart ==
    /\ IsFullPreview /\ ~res.panic /\ Len(res.buf) > 0
    /\ \E e \in Entries(nodes) :
          /\ e[2] = 1
          /\ NodePosition(e[2], sample_rate) # PreviewPosition(e[2])

-----------------------------------------------------------------------------
(* The read-ahead requests of the windowed mix, checked under SpecMix *)

\* The length in output samples of the whole of clip c at sample rate sr:
\* its duration in interleaved stereo samples.
FullLength(c, sr) == (DurNum(c) * sr * 2) \div DurDen

\* The span of entry e, [offset, offset + full clip length), meets [a, b).
SpanIntersects(e, a, b) ==
    /\ a < b
    /\ NodePosition(e[2], sample_rate) < b
    /\ a < NodePosition(e[2], sample_rate) + FullLength(e[3], sample_rate)

\* The number of requests the recorded call sent for entries <<p, c>>.
RequestsFor(p, c) == Cardinality({i \in 1..Len(res.requests) : res.requests[i] = <<p, c>>})

\* C25: a windowed mix that returns has sent exactly one default read-ahead
\* request for every entry of the index whose span
\* [offset, offset + full clip length) intersects the window.
C25_IntersectingClipsRequested ==
    (res.fn = "buffer_preview_samples_simd" /\ ~res.panic) =>
        \A e \in Entries(nodes) :
            SpanIntersects(e, res.args[1], res.args[2]) =>
                RequestsFor(e[2], e[3])
                    = Cardinality({t \in DOMAIN nodes : <<t, e[2], e[3]>> \in Entries(nodes)})

\* A windowed mix has returned without a request for a clip that has
\* backlog left and whose span intersects the window.
C25_BacklogClipNotRequested ==
    /\ res.fn = "buffer_preview_samples_simd" /\ ~res.panic
    /\ \E e \in Entries(nodes) :
          /\ SpanIntersects(e, res.args[1], res.args[2])
          /\ produced[e[3]] < MaxChunks
          /\ RequestsFor(e[2], e[3]) = 0

-----------------------------------------------------------------------------
(* Properties of the transport in time, checked under SpecTimed *)

\* Task t is Playing: alive and not paused.
Playing(t) == Alive(transport.tasks[t]) /\ transport.tasks[t].should_playback

\* C26: while a loop is Playing it produces a window every period: no
\* second passes once a period has gone by since the loop's previous window,
\* whatever Pause / Unpause pair or Seek the loop has handled in between.
C26_WindowEveryPeriod ==
    [][Tick => \A t \in 1..Len(transport.tasks) :
                  Playing(t) => transport.tasks[t].since_window # sample_length_secs]_vars

\* A Playing loop has handled a command since its previous window, and its
\* sleep has run for less time than has passed since that window.
C26_SleepRestarted ==
    \E t \in 1..Len(transport.tasks) :
        /\ Playing(t)
        /\ transport.tasks[t].pc = "select"
        /\ transport.tasks[t].queue = <<>>
        /\ transport.tasks[t].since_window = sample_length_secs
        /\ transport.tasks[t].sleep_elapsed < sample_length_secs

-----------------------------------------------------------------------------
(* Properties of the locks, checked under SpecLocks and SpecLocksFair *)

\* The decode of clip c's worker has failed.
Failed(c) == sync.workers[c].pc = "panicked"

InMix(m) == sync.mixers[m].pc # "idle"

\* The decode of clip c's worker has failed and the worker does not hold
\* the lock of the clip's buffer.
C27_LockReleased == \A c \in ClipIds : Failed(c) => sync.lock[c] # WorkerOf(c)

\* The worker of a clip whose decode has failed takes no step: it receives
\* nothing and its buffer does not grow.
C27_WorkerStopped ==
    \A c \in ClipIds : Failed(c) => sync'.workers[c] = sync.workers[c]

\* A task that has locked the buffer of a clip whose decode has failed does
\* not panic in the body of the loop for that clip.
C27_MixGoesOn ==
    \A m \in MixerIds :
        (sync.mixers[m].pc = "locked" /\ Failed(ClipOf(sync, m)))
            => sync'.mixers[m].result # "panicked"

\* C27: once a decode has failed in a clip's worker, the worker has stopped
\* and does not hold the lock of the clip's buffer, the buffer does not grow
\* any more, and a mix that comes to that clip goes on to return its buffer.
C27_DecodeFailureIsContained ==
    /\ []C27_LockReleased
    /\ [][C27_WorkerStopped]_vars
    /\ [][C27_MixGoesOn]_vars

\* The task holds the lock of the buffer of a clip whose worker's decode
\* has failed.
C27_MixerLocksAfterFailure ==
    \E c \in ClipIds, m \in MixerIds : Failed(c) /\ sync.lock[c] = MixerOf(m)

\* Thread th has asked for a lock that it has not got.
Blocked(th) ==
    \/ \E c \in ClipIds :
          th = WorkerOf(c) /\ sync.workers[c].pc = "lock" /\ sync.lock[c] # None
    \/ \E m \in MixerIds :
          /\ th = MixerOf(m)
          /\ \/ sync.mixers[m].pc = "entry" /\ sync.lock[ClipOf(sync, m)] # None
             \/ /\ sync.mixers[m].pc = "iter" /\ sync.mixers[m].tracks = {}
                /\ NextShard(sync, m) # 0 /\ sync.writer[NextShard(sync, m)]
    \/ th = UiThread /\ sync.ui.pc = "want" /\ sync.readers[sync.shard_of[sync.ui.row]] # {}

\* The threads that hold the lock a blocked thread has asked for.
WaitsFor(th) ==
    IF th[1] = "worker" THEN {sync.lock[th[2]]}
    ELSE IF th[1] = "mixer"
    THEN IF sync.mixers[th[2]].pc = "entry" THEN {sync.lock[ClipOf(sync, th[2])]}
         ELSE {UiThread}
    ELSE {MixerOf(m) : m \in sync.readers[sync.shard_of[sync.ui.row]]}

\* A set of blocked threads each of which waits for a thread of the set.
Deadlocked(S) == S # {} /\ \A th \in S : Blocked(th) /\ WaitsFor(th) \cap S # {}

\* The locks of clip buffers thread th holds.
Guards(th) == {c \in ClipIds : sync.lock[c] = th}

\* C29: the sample parsing threads, the tasks in a windowed mix and the UI
\* thread in its timeline mutations never deadlock, a task in a windowed
\* mix holds the lock of at most one clip's buffer at a time, and a thread
\* that waits for a buffer's or a shard's lock gets it.
C29_NoDeadlockOneGuard ==
    /\ [](\A S \in SUBSET Threads : ~Deadlocked(S))
    /\ [](\A m \in MixerIds : Cardinality(Guards(MixerOf(m))) <= 1)
    /\ \A th \in Threads : Blocked(th) ~> ~Blocked(th)

\* The UI thread waits for a shard the task reads, and the task waits for
\* the buffer lock a sample parsing thread holds while it decodes.
C29_ChainOfWaits ==
    \E m \in MixerIds, c \in ClipIds :
        /\ Blocked(UiThread) /\ MixerOf(m) \in WaitsFor(UiThread)
        /\ Blocked(MixerOf(m)) /\ WaitsFor(MixerOf(m)) = {WorkerOf(c)}
        /\ sync.workers[c].pc = "decoding"

-----------------------------------------------------------------------------
(* A property of the sessions of the transport, checked under SpecTransport *)

\* The task of the latest Play.
Newest == Len(transport.tasks)

\* Task t does its fetch_add on the cursor, or hands a window to its sink.
Advances(t) ==
    \/ transport.tasks[t].pc # "load" /\ transport'.tasks[t].pc = "load"
    \/ Len(transport'.tasks[t].windows) > Len(transport.tasks[t].windows)

\* The windows of the newest task have the length W and start at a multiple
\* of W, W being sample_rate * sample_length_secs * 2.
NewestWindowsAligned ==
    \A k \in 1..Len(transport.tasks[Newest].windows) :
        LET w == transport.tasks[Newest].windows[k]
        IN  /\ w[2] - w[1] = WindowLen(transport.tasks[Newest])
            /\ w[1] % WindowLen(transport.tasks[Newest]) = 0

\* C30: once a later Play has reset the cursor, the task of an earlier
\* session neither advances the cursor nor hands a window to its sink, and
\* while no Seek has been handled every window of the newest task has the
\* length W and starts at a multiple of W.
C30_OneLoopAdvancesCursor ==
    /\ [][\A t \in 1..Len(transport.tasks) : t < Newest => ~Advances(t)]_vars
    /\ []((Newest > 0 /\ ~transport.seeked) => NewestWindowsAligned)

\* No Seek was handled, the task of the stopped session has done a fetch_add
\* after the second Play, and the task of the second session has handed its
\* sink a window that is longer than W.
C30_OldLoopStretchedWindow ==
    /\ ~transport.seeked
    /\ Newest = 2
    /\ transport.tasks[1].pc = "load"
    /\ \E k \in 1..Len(transport.tasks[2].windows) :
          transport.tasks[2].windows[k][2] - transport.tasks[2].windows[k][1]
              > WindowLen(transport.tasks[2])

=============================================================================
